---------------------------- MODULE Spec2Model ----------------------------
(***************************************************************************)
(* Model of the map component of sahel-smartland                           *)
(*   src/src/components/MapVisualization.tsx  (the React component)        *)
(*   src/src/lib/geospatialUtils.ts           (loader, colour, statistics) *)
(*                                                                         *)
(* Numbers.  JavaScript numbers that can leave the integers are modelled   *)
(* as they are computed: a year that went through Math.max/Math.min is an  *)
(* extended integer [inf, n] (inf = 1 is Infinity, inf = -1 is -Infinity), *)
(* and a quotient is a fraction [num, den] with den > 0, or NaN.           *)
(***************************************************************************)
EXTENDS Integers, Sequences, FiniteSets, TLC

VARIABLES
    year,                   \* prop year
    dataType,               \* prop dataType
    activeLayers,           \* state activeLayers: the set of layer ids whose flag is true
    mapData,                \* state mapData: key -> "none" | "ok" | "empty" (a stored frame)
    isLoading,              \* state isLoading
    transitionAnimationId,  \* state transitionAnimationId (NullRef when null)
    currentStats,           \* state currentStats
    previousYearRef,        \* previousYearRef.current (NullRef when null)
    previousDataTypeRef,    \* previousDataTypeRef.current ("null" when null)
    rendered,               \* what the last committed render saw: the effects' dependencies
    dirty,                  \* object-valued states replaced since the last commit
    cleanupId,              \* transitionAnimationId closed over by the preload effect's cleanup
    rafQueue,               \* callbacks scheduled with requestAnimationFrame
    nextRafId,              \* the id the next requestAnimationFrame returns
    procs,                  \* async functions suspended at an await of loadTIFF
    calls,                  \* loadTIFF invocations per key
    fails,                  \* loadTIFF invocations per key that ended in its catch
    toasts,                 \* keys reported through toast()
    canvas,                 \* the output buffer: what is drawn on the mounted canvas
    pass,                   \* the most recent draw pass (render effect or tick), for the record
    request,                \* the keys the most recent commit asked the frame store for
    events,                 \* how many prop changes and toggles happened (bounded)
    env,                    \* the inputs the parent, the user and the network may produce
    pure                    \* the pure function under test: its inputs and its result

----------------------------------------------------------------------------
(* Extended integers and fractions *)

Fin(n) == [inf |-> 0, n |-> n]
PosInf == [inf |-> 1, n |-> 0]
NegInf == [inf |-> -1, n |-> 0]
IsFin(x) == x.inf = 0

Frac(a, b) == [num |-> a, den |-> b]
Zero == Frac(0, 1)
NaN == Frac(0, 0)
IsNaN(p) == p.den = 0

\* x - y for extended integers, as IEEE subtraction gives it for the operand
\* pairs the component can produce (never Infinity - Infinity)
ExtSub(x, y) ==
    IF IsFin(x) /\ IsFin(y) THEN Fin(x.n - y.n)
    ELSE IF IsFin(x) THEN (IF y.inf = 1 THEN NegInf ELSE PosInf)
    ELSE x

\* x > 0
ExtPositive(x) == x.inf = 1 \/ (x.inf = 0 /\ x.n > 0)

\* x / y for y > 0: finite/finite is the fraction, finite/Infinity is 0,
\* Infinity/Infinity is NaN, Infinity/finite is not produced by the component
ExtDiv(x, y) ==
    IF IsFin(x) /\ IsFin(y) THEN Frac(x.n, y.n)
    ELSE IF IsFin(x) THEN Zero
    ELSE NaN

----------------------------------------------------------------------------
(* geospatialUtils.ts: the data set kinds and their years *)

BaseKinds == {"landCover", "precipitation", "vegetation", "population"}
VectorKinds == {"regionBoundaries", "districtBoundaries", "roadNetwork", "riverNetwork"}

FirstStandardYear == 2010
StandardYearCount == 14

\* getAvailableYears: Array.from({length: 14}, (_, i) => 2010 + i), and
\* [2010, 2015, 2020] for population
getAvailableYears(kind) ==
    IF kind = "population" THEN <<2010, 2015, 2020>>
    ELSE [i \in 1..StandardYearCount |-> FirstStandardYear + (i - 1)]

SeqRange(s) == {s[i] : i \in DOMAIN s}

\* Math.max(...xs) and Math.min(...xs) of a set of integers: -Infinity and
\* Infinity when the set is empty
MathMax(S) == IF S = {} THEN NegInf ELSE Fin(CHOOSE m \in S : \A x \in S : x <= m)
MathMin(S) == IF S = {} THEN PosInf ELSE Fin(CHOOSE m \in S : \A x \in S : m <= x)

MathAbs(n) == IF n < 0 THEN -n ELSE n

\* popYears.reduce((prev, curr) => ..., prev) over the rest of the array
RECURSIVE ReduceClosest(_, _, _)
ReduceClosest(rest, prev, yr) ==
    IF rest = <<>> THEN prev
    ELSE ReduceClosest(Tail(rest),
                       IF MathAbs(Head(rest) - yr) < MathAbs(prev - yr) THEN Head(rest)
                       ELSE prev,
                       yr)

popYears == <<2010, 2015, 2020>>

\* getClosestPopulationYear comparing the differences without Math.abs
getClosestPopulationYearSigned(yr) ==
    IF popYears[2] - yr < popYears[1] - yr THEN popYears[2] ELSE popYears[1]

\* getClosestPopulationYear
getClosestPopulationYear(yr) == ReduceClosest(Tail(popYears), Head(popYears), yr)

----------------------------------------------------------------------------
(* MapVisualization.tsx 74-88: the memo {prevYear, nextYear, progress} *)

QueryIncludesYear(available, yr) == yr \in SeqRange(available)

\* QueryProgress with the distance measured from nextYear instead of prevYear
QueryProgressFromNext(yr, prevYear, nextYear) ==
    LET yearRange == ExtSub(nextYear, prevYear)
    IN  IF ExtPositive(yearRange)
        THEN ExtDiv(ExtSub(nextYear, Fin(yr)), yearRange)
        ELSE Zero

QueryProgress(yr, prevYear, nextYear) ==
    LET yearRange == ExtSub(nextYear, prevYear)
    IN  IF ExtPositive(yearRange)
        THEN ExtDiv(ExtSub(Fin(yr), prevYear), yearRange)
        ELSE Zero

TemporalQuery(yr, kind) ==
    LET availableYears == getAvailableYears(kind)
        ys == SeqRange(availableYears)
    IN  IF QueryIncludesYear(availableYears, yr)
        THEN [prevYear |-> Fin(yr), nextYear |-> Fin(yr), progress |-> Zero]
        ELSE LET prevYear == MathMax({y \in ys : y <= yr})
                 nextYear == MathMin({y \in ys : y >= yr})
             IN  [prevYear |-> prevYear, nextYear |-> nextYear,
                  progress |-> QueryProgress(yr, prevYear, nextYear)]

----------------------------------------------------------------------------
(* The frame store: mapData, and what loadTIFF reads *)

VectorOrder == <<"regionBoundaries", "districtBoundaries", "roadNetwork", "riverNetwork">>
Layers == BaseKinds \cup VectorKinds

\* the keys mapData[kind][year] the component ever writes
Keys ==
    {<<k, y>> : k \in BaseKinds \ {"population"},
                y \in SeqRange(getAvailableYears("landCover"))}
    \cup ({<<"population", y>> : y \in SeqRange(getAvailableYears("population"))}
          \cup {<<v, 0>> : v \in VectorKinds})

NullRef == 0
UndefinedCell == -1
CellCount == 2

\* the raster files: cell 1 keeps its value over the years, the other cells
\* change from one observed year to the next
RasterBase(kind) ==
    CASE kind = "landCover" -> 7
      [] kind = "precipitation" -> 100
      [] kind = "vegetation" -> 1000
      [] kind = "population" -> 50
      [] OTHER -> 0

RasterCells(kind, y) ==
    [i \in 1..CellCount |->
        IF kind \in VectorKinds THEN (IF i = 1 THEN 1 ELSE 0)
        ELSE IF i = 1 THEN RasterBase(kind)
        ELSE RasterBase(kind) + 1 + ((y + i) % 3)]

\* loadTIFF: the frame it resolves to; its catch returns {data: [], width: 0,
\* height: 0}, and nothing it does can reject
LoadOutcomes == {"ok", "empty"}

\* mapData[kind]?.[y]: the stored frame, "none" when undefined
Stored(md, kind, y) ==
    IF IsFin(y) /\ <<kind, y.n>> \in Keys THEN md[<<kind, y.n>>] ELSE "none"

FrameData(md, kind, y) ==
    IF Stored(md, kind, y) = "ok" THEN RasterCells(kind, y.n) ELSE <<>>

FrameWidth(md, kind, y) == IF Stored(md, kind, y) = "ok" THEN CellCount ELSE 0
FrameHeight(md, kind, y) == IF Stored(md, kind, y) = "ok" THEN 1 ELSE 0

\* Object.keys(mapData[kind]).length
StoredCount(md, kind) == Cardinality({k \in Keys : k[1] = kind /\ md[k] # "none"})

----------------------------------------------------------------------------
(* geospatialUtils.ts: interpolation and statistics *)

\* Math.random() <= p: the draw can be 0, so p = 0 leaves the outcome open
RandomAtMost(p, r) ==
    IF IsNaN(p) \/ p.num < 0 THEN FALSE
    ELSE IF p.num >= p.den THEN TRUE
    ELSE r

\* Math.random() < p, Math.random() being in [0, 1): r is the outcome when
\* 0 < p < 1 leaves it open
RandomBelow(p, r) ==
    IF IsNaN(p) \/ p.num <= 0 THEN FALSE
    ELSE IF p.num >= p.den THEN TRUE
    ELSE r

RandomDraws == [1..CellCount -> BOOLEAN]

\* interpolateData blending the two values numerically instead of choosing one
interpolateDataBlend(startData, endData, progress, rnd) ==
    IF Len(startData) # Len(endData) \/ Len(startData) = 0 THEN endData
    ELSE [i \in 1..Len(startData) |->
            IF IsNaN(progress) THEN startData[i]
            ELSE (startData[i] * (progress.den - progress.num) + endData[i] * progress.num)
                     \div progress.den]

\* interpolateData without its test of the lengths: endData[index] is
\* undefined past the end of endData
interpolateDataUnchecked(startData, endData, progress, rnd) ==
    [i \in 1..Len(startData) |->
        LET endValue == IF i <= Len(endData) THEN endData[i] ELSE UndefinedCell
        IN  IF startData[i] = endValue THEN startData[i]
            ELSE IF RandomBelow(progress, rnd[i]) THEN endValue ELSE startData[i]]

\* interpolateData
interpolateData(startData, endData, progress, rnd) ==
    IF Len(startData) # Len(endData) \/ Len(startData) = 0 THEN endData
    ELSE [i \in 1..Len(startData) |->
            IF startData[i] = endData[i] THEN startData[i]
            ELSE IF RandomBelow(progress, rnd[i]) THEN endData[i] ELSE startData[i]]

LandCoverClassKeys == {0} \cup (7..16)

----------------------------------------------------------------------------
(* geospatialUtils.ts: colours *)

landCoverColors ==
    [k \in LandCoverClassKeys |->
        CASE k = 7 -> "#1a9850" [] k = 8 -> "#91cf60" [] k = 9 -> "#d9ef8b"
          [] k = 10 -> "#fee08b" [] k = 11 -> "#66c2a5" [] k = 12 -> "#fc8d59"
          [] k = 13 -> "#d73027" [] k = 14 -> "#fdae61" [] k = 15 -> "#f7f7f7"
          [] k = 16 -> "#bababa" [] OTHER -> "#4d4d4d"]

precipitationColorScale ==
    <<"#f7fbff", "#deebf7", "#c6dbef", "#9ecae1", "#6baed6", "#4292c6", "#2171b5",
      "#08519c", "#08306b">>

vegetationProductivityScale ==
    <<"#f7fcf5", "#e5f5e0", "#c7e9c0", "#a1d99b", "#74c476", "#41ab5d", "#238b45",
      "#006d2c", "#00441b">>

populationDensityScale ==
    <<"#ffffcc", "#ffeda0", "#fed976", "#feb24c", "#fd8d3c", "#fc4e2a", "#e31a1c",
      "#bd0026", "#800026">>

\* '#ffffff00'
Transparent == "#ffffff00"

\* what indexing a scale yields when the index is no index of it
UndefinedColor == "undefined"

VegetationNoData == 65533

\* a cell value is a fraction (the continuous rasters are Float32) or NaN
IsValue(v, n) == v.den > 0 /\ v.num = n * v.den
ValueBelow(v, n) == v.den > 0 /\ v.num < n * v.den
ValueAtMost(v, n) == v.den > 0 /\ v.num <= n * v.den

\* Math.max(0, Math.min(1, (value - min) / (max - min || 1))): NaN passes
\* through Math.min and Math.max
Normalized(value, min, max) ==
    IF IsNaN(value) THEN NaN
    ELSE LET range == IF max - min = 0 THEN 1 ELSE max - min
             num == (value.num - min * value.den) * (IF range < 0 THEN -1 ELSE 1)
             den == value.den * (IF range < 0 THEN -range ELSE range)
         IN  IF num <= 0 THEN Zero
             ELSE IF num >= den THEN Frac(1, 1)
             ELSE Frac(num, den)

\* scale[Math.floor(normalized * (scale.length - 1))]
ScaleColor(scale, normalized) ==
    IF IsNaN(normalized) THEN UndefinedColor
    ELSE scale[(normalized.num * (Len(scale) - 1)) \div normalized.den + 1]

\* getPrecipitationColor
getPrecipitationColor(value, min, max) ==
    ScaleColor(precipitationColorScale, Normalized(value, min, max))

\* getVegetationColor
getVegetationColor(value, min, max) ==
    IF IsValue(value, VegetationNoData) \/ ValueAtMost(value, 0) THEN Transparent
    ELSE ScaleColor(vegetationProductivityScale, Normalized(value, min, max))

\* getPopulationDensityColor treating 0 as no data, as getVegetationColor does
getPopulationDensityColorNonPositive(value, min, max) ==
    IF ValueAtMost(value, 0) THEN Transparent
    ELSE ScaleColor(populationDensityScale, Normalized(value, min, max))

\* getPopulationDensityColor
getPopulationDensityColor(value, min, max) ==
    IF ValueBelow(value, 0) THEN Transparent
    ELSE ScaleColor(populationDensityScale, Normalized(value, min, max))

\* renderTIFFToCanvas without the fallback to landCoverColors[0]
CellColorNoFallback(kind, value, min, max) ==
    IF kind = "precipitation" THEN getPrecipitationColor(value, min, max)
    ELSE IF kind = "vegetation"
        THEN IF IsValue(value, VegetationNoData) THEN Transparent
             ELSE getVegetationColor(value, min, max)
    ELSE IF kind = "population" THEN getPopulationDensityColor(value, min, max)
    ELSE IF \E k \in LandCoverClassKeys : IsValue(value, k)
        THEN landCoverColors[CHOOSE k \in LandCoverClassKeys : IsValue(value, k)]
    ELSE UndefinedColor

\* renderTIFFToCanvas: the colour of one cell
CellColor(kind, value, min, max) ==
    IF kind = "precipitation" THEN getPrecipitationColor(value, min, max)
    ELSE IF kind = "vegetation"
        THEN IF IsValue(value, VegetationNoData) THEN Transparent
             ELSE getVegetationColor(value, min, max)
    ELSE IF kind = "population" THEN getPopulationDensityColor(value, min, max)
    ELSE IF \E k \in LandCoverClassKeys : IsValue(value, k)
        THEN landCoverColors[CHOOSE k \in LandCoverClassKeys : IsValue(value, k)]
    ELSE landCoverColors[0]

----------------------------------------------------------------------------
(* geospatialUtils.ts: statistics *)

\* the cells of a frame as numbers
Values(data) == [i \in DOMAIN data |-> Frac(data[i], 1)]

FracLess(a, b) == a.den > 0 /\ b.den > 0 /\ a.num * b.den < b.num * a.den
FracAdd(a, b) ==
    IF IsNaN(a) \/ IsNaN(b) THEN NaN
    ELSE IF a.den = b.den THEN Frac(a.num + b.num, a.den)
    ELSE Frac(a.num * b.den + b.num * a.den, a.den * b.den)
FracTimes(a, n, d) == IF IsNaN(a) THEN NaN ELSE Frac(a.num * n, a.den * d)
FracMinus(a, b) == FracAdd(a, Frac(-b.num, b.den))

\* Math.round: the nearest integer, a half going up
MathRound(a) == IF IsNaN(a) THEN NaN ELSE Frac((2 * a.num + a.den) \div (2 * a.den), 1)

\* validData.reduce((acc, val) => acc + val, 0)
RECURSIVE SeqSum(_)
SeqSum(s) == IF s = <<>> THEN Zero ELSE FracAdd(Head(s), SeqSum(Tail(s)))

\* Math.min(...validData) and Math.max(...validData) of a non-empty array
SeqMin(s) == s[CHOOSE i \in DOMAIN s : \A j \in DOMAIN s : ~FracLess(s[j], s[i])]
SeqMax(s) == s[CHOOSE i \in DOMAIN s : \A j \in DOMAIN s : ~FracLess(s[i], s[j])]

\* calculateLandCoverStats counting a value that is no class under No Data
calculateLandCoverStatsUnknownAsNoData(data) ==
    [k \in LandCoverClassKeys |->
        Cardinality({i \in DOMAIN data :
                        \/ IsValue(data[i], k)
                        \/ k = 0 /\ ~\E c \in LandCoverClassKeys : IsValue(data[i], c)})]

\* calculateLandCoverStats
calculateLandCoverStats(data) ==
    [k \in LandCoverClassKeys |-> Cardinality({i \in DOMAIN data : IsValue(data[i], k)})]

ZeroSummary == [average |-> Zero, min |-> Zero, max |-> Zero, total |-> Zero]

\* calculatePrecipitationStats keeping every positive value
calculatePrecipitationStatsPositive(data) ==
    LET validData == SelectSeq(data, LAMBDA v : FracLess(Zero, v))
        sum == SeqSum(validData)
    IN  IF Len(data) = 0 \/ Len(validData) = 0 THEN ZeroSummary
        ELSE [average |-> Frac(sum.num, sum.den * Len(validData)),
              min |-> SeqMin(validData),
              max |-> SeqMax(validData),
              total |-> sum]

\* calculatePrecipitationStats (noDataValue = 0)
calculatePrecipitationStats(data) ==
    LET validData == SelectSeq(data, LAMBDA v : ~IsValue(v, 0) /\ FracLess(Frac(1, 10), v))
        sum == SeqSum(validData)
    IN  IF Len(data) = 0 \/ Len(validData) = 0 THEN ZeroSummary
        ELSE [average |-> Frac(sum.num, sum.den * Len(validData)),
              min |-> SeqMin(validData),
              max |-> SeqMax(validData),
              total |-> sum]

ZeroVegetationSummary ==
    [average |-> Zero, min |-> Zero, max |-> Zero, total |-> Zero, forestGPP |-> Zero,
     grasslandGPP |-> Zero, croplandGPP |-> Zero, barrenGPP |-> Zero]

VegetationCeiling == 3000

\* calculateVegetationStats
calculateVegetationStats(data) ==
    LET validData == SelectSeq(data, LAMBDA v : /\ ~IsValue(v, VegetationNoData)
                                                /\ FracLess(Zero, v)
                                                /\ FracLess(v, Frac(VegetationCeiling, 1)))
        sum == SeqSum(validData)
        min == SeqMin(validData)
        max == SeqMax(validData)
    IN  IF Len(data) = 0 \/ Len(validData) = 0 THEN ZeroVegetationSummary
        ELSE [average |-> Frac(sum.num, sum.den * Len(validData)),
              min |-> min,
              max |-> max,
              total |-> sum,
              forestGPP |-> FracTimes(max, 9, 10),
              grasslandGPP |-> FracTimes(max, 6, 10),
              croplandGPP |-> FracTimes(max, 7, 10),
              barrenGPP |-> FracTimes(min, 15, 10)]

ZeroPopulationSummary ==
    [totalPopulation |-> Zero, averageDensity |-> Zero, maxDensity |-> Zero,
     urbanPopulation |-> Zero, ruralPopulation |-> Zero, populationGrowthRate |-> Zero,
     populationUnder15 |-> Zero, populationOver65 |-> Zero, malePopulation |-> Zero,
     femalePopulation |-> Zero]

\* calculatePopulationStats: the record it builds from a non-empty valid set
PopulationSummary(validData) ==
    LET sum == SeqSum(validData)
        max == SeqMax(validData)
        totalPopulation == MathRound(FracTimes(sum, 1, 10))
        urbanDensityThreshold == FracTimes(max, 3, 10)
        urbanPopulationTotal ==
            SeqSum(SelectSeq(validData, LAMBDA v : ~FracLess(v, urbanDensityThreshold)))
        urbanPopulation == MathRound(FracTimes(urbanPopulationTotal, 1, 10))
        femalePopulation == MathRound(FracTimes(totalPopulation, 51, 100))
    IN  [totalPopulation |-> totalPopulation,
         averageDensity |-> Frac(sum.num, sum.den * Len(validData)),
         maxDensity |-> max,
         urbanPopulation |-> urbanPopulation,
         ruralPopulation |-> FracMinus(totalPopulation, urbanPopulation),
         populationGrowthRate |-> Frac(31, 10),
         populationUnder15 |-> MathRound(FracTimes(totalPopulation, 44, 100)),
         populationOver65 |-> MathRound(FracTimes(totalPopulation, 3, 100)),
         malePopulation |-> FracMinus(totalPopulation, femalePopulation),
         femalePopulation |-> femalePopulation]

\* calculatePopulationStats
calculatePopulationStats(data) ==
    LET validData == SelectSeq(data, LAMBDA v : FracLess(Zero, v))
    IN  IF Len(data) = 0 \/ Len(validData) = 0 THEN ZeroPopulationSummary
        ELSE PopulationSummary(validData)

\* loadTIFF: the valid cells its min and max are taken from
LoadValidData(kind, data) ==
    IF kind = "vegetation"
    THEN SelectSeq(data, LAMBDA v : FracLess(Zero, v) /\ FracLess(v, Frac(VegetationCeiling, 1)))
    ELSE IF kind = "population" THEN SelectSeq(data, LAMBDA v : ~IsNaN(v) /\ ~FracLess(v, Zero))
    ELSE SelectSeq(data, LAMBDA v : FracLess(Zero, v))

DefaultMax(kind) == IF kind = "vegetation" THEN VegetationCeiling ELSE 500

\* loadTIFF: min and max of a continuous frame
LoadRange(kind, data) ==
    LET validData == LoadValidData(kind, data)
    IN  IF Len(validData) > 0
        THEN [min |-> SeqMin(validData), max |-> SeqMax(validData)]
        ELSE [min |-> Zero, max |-> Frac(DefaultMax(kind), 1)]

\* what setCurrentStats receives for a layer: the record and the array it was
\* computed from
StatsOf(layerType, data) ==
    IF layerType = "landCover"
    THEN [kind |-> "landCover", cells |-> data,
          landCover |-> calculateLandCoverStats(Values(data)),
          precipitation |-> calculatePrecipitationStats(<<>>)]
    ELSE [kind |-> "precipitation", cells |-> data,
          landCover |-> calculateLandCoverStats(<<>>),
          precipitation |-> calculatePrecipitationStats(Values(data))]

NoStats ==
    [kind |-> "none", cells |-> <<>>, landCover |-> calculateLandCoverStats(<<>>),
     precipitation |-> calculatePrecipitationStats(<<>>)]

----------------------------------------------------------------------------
(* MapVisualization.tsx: the canvas and the draw passes *)

AnimationDuration == 500

NoCanvas == [mounted |-> FALSE, base |-> <<>>, kind |-> "none", overlays |-> <<>>]
BlankCanvas == [mounted |-> TRUE, base |-> <<>>, kind |-> "none", overlays |-> <<>>]

\* the record of the most recent draw pass: type says what the pass did
\* ("full": renderAllLayers, "animStart": animateYearTransition scheduled its
\* first frame, "noAnim": animateYearTransition returned early, "tick":
\* animateTransition ran); shown is the buffer before the pass, live the ids
\* scheduled before it; yearChanged and kindChanged compare the props with
\* those of the previous render pass (rYear, rDataType); owed says that a
\* render pass saw a year change within the kind with the bracketing frames
\* loaded and no tick has drawn the transition's end since; for a full pass,
\* base is the base layer renderAllLayers chose, before and after what the
\* store held for prevYear and nextYear, bracketed whether the two years
\* differ, interpolated whether renderLayer called interpolateData,
\* beforeCells the cells of the prevYear frame, overlays the overlays on the
\* buffer after the pass, active the overlay flags set and loaded the
\* overlays whose frame is stored and not empty, activeBase the base flags
\* set and baseLoaded the base kinds whose prevYear frame is stored and not
\* empty and whose nextYear frame is not the empty frame of a failed load
NoPass ==
    [type |-> "none", owed |-> FALSE, activeBase |-> {}, baseLoaded |-> {},
     base |-> "none", before |-> "none", after |-> "none", bracketed |-> FALSE,
     interpolated |-> FALSE, beforeCells |-> <<>>, overlays |-> <<>>, active |-> {},
     loaded |-> {}, drew |-> FALSE, drawn |-> <<>>, stats |-> FALSE, statsCells |-> <<>>,
     from |-> <<>>, to |-> <<>>, shown |-> <<>>, yearChanged |-> FALSE, kindChanged |-> FALSE,
     preempted |-> FALSE, live |-> {}, rYear |-> NullRef, rDataType |-> "null"]

\* renderTIFFToCanvas draws unless data.length, width or height is 0; it
\* replaces every pixel of the width x height rectangle
Draws(data, width, height) == Len(data) # 0 /\ width # 0 /\ height # 0

renderTIFFToCanvas(cv, data, width, height, kind) ==
    IF Draws(data, width, height) /\ cv.mounted
    THEN [cv EXCEPT !.base = data, !.kind = kind, !.overlays = <<>>]
    ELSE cv

\* renderVectorLayerOnCanvas: the overlay is drawn when its frame is stored and
\* not empty; renderVectorLayer is not among the sources and is taken from the
\* specification: it draws the layer over the buffer and clears nothing
renderVectorLayer(cv, layerType) ==
    [cv EXCEPT !.overlays = Append(@, layerType)]

\* renderVectorLayerOnCanvas without its test of the stored frame
renderVectorLayerOnCanvasUnguarded(cv, md, layerType) ==
    renderVectorLayer(cv, layerType)

renderVectorLayerOnCanvas(cv, md, layerType) ==
    IF Stored(md, layerType, Fin(0)) # "ok" THEN cv ELSE renderVectorLayer(cv, layerType)

\* DrawOverlays with the layers taken from the last to the first
RECURSIVE DrawOverlaysLastFirst(_, _, _, _)
DrawOverlaysLastFirst(cv, md, active, i) ==
    IF i > Len(VectorOrder) THEN cv
    ELSE LET under == DrawOverlaysLastFirst(cv, md, active, i + 1)
         IN  IF VectorOrder[i] \in active
             THEN renderVectorLayerOnCanvas(under, md, VectorOrder[i])
             ELSE under

RECURSIVE DrawOverlays(_, _, _, _)
DrawOverlays(cv, md, active, i) ==
    IF i > Len(VectorOrder) THEN cv
    ELSE DrawOverlays(IF VectorOrder[i] \in active
                      THEN renderVectorLayerOnCanvas(cv, md, VectorOrder[i])
                      ELSE cv,
                      md, active, i + 1)

\* renderLayer's choice of the array to draw
LayerInterpolates(md, layerType, q) ==
    Stored(md, layerType, q.nextYear) # "none" /\ q.prevYear # q.nextYear

RenderData(md, layerType, q, rnd) ==
    IF LayerInterpolates(md, layerType, q)
    THEN interpolateData(FrameData(md, layerType, q.prevYear),
                         FrameData(md, layerType, q.nextYear), q.progress, rnd)
    ELSE FrameData(md, layerType, q.prevYear)

\* renderLayer returns early when the frame of prevYear is missing or empty
LayerHasData(md, layerType, q) == Stored(md, layerType, q.prevYear) = "ok"

\* renderAllLayers: which base layer it draws, "none" when neither flag is set
BaseToRender(active) ==
    IF "landCover" \in active THEN "landCover"
    ELSE IF "precipitation" \in active THEN "precipitation"
    ELSE "none"

\* renderAllLayers on working state S with the closure cl of the render
renderAllLayers(S, cl, rnd) ==
    LET base == BaseToRender(cl.activeLayers)
        has == base # "none" /\ LayerHasData(cl.mapData, base, cl.q)
        data == IF has THEN RenderData(cl.mapData, base, cl.q, rnd) ELSE <<>>
        w == IF has THEN FrameWidth(cl.mapData, base, cl.q.prevYear) ELSE 0
        h == IF has THEN FrameHeight(cl.mapData, base, cl.q.prevYear) ELSE 0
        cleared == IF S.canvas.mounted THEN BlankCanvas ELSE S.canvas
        withBase == IF has THEN renderTIFFToCanvas(cleared, data, w, h, base) ELSE cleared
        cv == DrawOverlays(withBase, cl.mapData, cl.activeLayers, 1)
    IN  [S EXCEPT !.canvas = cv,
                  !.currentStats = IF has THEN StatsOf(base, data) ELSE @,
                  !.pass = [@ EXCEPT !.type = "full",
                                     !.drew = has /\ Draws(data, w, h),
                                     !.drawn = IF has /\ Draws(data, w, h) THEN data ELSE <<>>,
                                     !.stats = has,
                                     !.statsCells = IF has THEN data ELSE <<>>,
                                     !.from = <<>>, !.to = <<>>,
                                     !.base = base,
                                     !.before = Stored(cl.mapData, base, cl.q.prevYear),
                                     !.after = Stored(cl.mapData, base, cl.q.nextYear),
                                     !.bracketed = cl.q.prevYear # cl.q.nextYear,
                                     !.interpolated =
                                         has /\ LayerInterpolates(cl.mapData, base, cl.q),
                                     !.beforeCells = FrameData(cl.mapData, base, cl.q.prevYear),
                                     !.overlays = cv.overlays,
                                     !.active = cl.activeLayers \cap VectorKinds,
                                     !.activeBase = cl.activeLayers \cap BaseKinds,
                                     !.baseLoaded =
                                         {k \in BaseKinds :
                                             /\ Stored(cl.mapData, k, cl.q.prevYear) = "ok"
                                             /\ Stored(cl.mapData, k, cl.q.nextYear) # "empty"},
                                     !.loaded = {v \in VectorKinds :
                                                    Stored(cl.mapData, v, Fin(0)) = "ok"}]]

\* animateYearTransition: it returns without scheduling anything when a frame
\* it needs is undefined
AnimationCanStart(S, cl) ==
    /\ Stored(cl.mapData, cl.dataType, cl.q.prevYear) # "none"
    /\ Stored(cl.mapData, cl.dataType, cl.q.nextYear) # "none"
    /\ Stored(cl.mapData, S.previousDataTypeRef, Fin(S.previousYearRef)) # "none"

\* startInterpolatedData = [...previousData.data]
StartInterpolatedData(S, cl) ==
    FrameData(cl.mapData, S.previousDataTypeRef, Fin(S.previousYearRef))

EndInterpolatedData(cl, rnd) ==
    IF cl.q.prevYear # cl.q.nextYear
    THEN interpolateData(FrameData(cl.mapData, cl.dataType, cl.q.prevYear),
                         FrameData(cl.mapData, cl.dataType, cl.q.nextYear), cl.q.progress, rnd)
    ELSE FrameData(cl.mapData, cl.dataType, cl.q.prevYear)

animateYearTransition(S, cl, rnd) ==
    IF ~AnimationCanStart(S, cl)
    THEN [S EXCEPT !.pass = [@ EXCEPT !.type = "noAnim", !.drew = FALSE, !.drawn = <<>>,
                                      !.stats = FALSE, !.statsCells = <<>>,
                                      !.from = <<>>, !.to = <<>>]]
    ELSE LET cb == [id |-> S.nextRafId,
                    start |-> StartInterpolatedData(S, cl),
                    end |-> EndInterpolatedData(cl, rnd),
                    elapsed |-> 0,
                    dataType |-> cl.dataType,
                    width |-> FrameWidth(cl.mapData, cl.dataType, cl.q.prevYear),
                    height |-> FrameHeight(cl.mapData, cl.dataType, cl.q.prevYear),
                    attached |-> TRUE]
         IN  [S EXCEPT !.rafQueue = @ \cup {cb},
                       !.nextRafId = @ + 1,
                       !.transitionAnimationId = cb.id,
                       !.pass = [@ EXCEPT !.type = "animStart", !.drew = FALSE,
                                          !.drawn = <<>>, !.stats = FALSE,
                                          !.statsCells = <<>>,
                                          !.from = cb.start, !.to = cb.end]]

cancelAnimationFrame(queue, id) == {cb \in queue : cb.id # id}

\* adjustCanvasSize: assigning canvas.width and canvas.height resets the
\* canvas to blank; it returns before that when the frame of prevYear is
\* undefined.  renderCurrentData, which it then calls, is not among the
\* sources: the call is taken to leave the modelled state as it is
renderCurrentData(S) == S

adjustCanvasSize(S, cl) ==
    IF Stored(cl.mapData, cl.dataType, cl.q.prevYear) = "none" \/ ~S.canvas.mounted
    THEN S
    ELSE renderCurrentData([S EXCEPT !.canvas = BlankCanvas])

\* the branch of the render effect (239-254)
RefsSayChanged(S, cl) ==
    /\ S.previousYearRef # NullRef
    /\ (S.previousYearRef # cl.year \/ S.previousDataTypeRef # cl.dataType)

DataTypeChanged(S, cl) == S.previousDataTypeRef # cl.dataType

SameProps(S, cl) == S.pass.rYear = cl.year /\ S.pass.rDataType = cl.dataType

\* the props changed to another year of the same kind, and the frames that
\* bracket the new year are stored and not empty
TransitionDue(S, cl) ==
    /\ S.pass.rYear # NullRef /\ S.pass.rYear # cl.year
    /\ S.pass.rDataType = cl.dataType
    /\ Stored(cl.mapData, cl.dataType, cl.q.prevYear) = "ok"
    /\ Stored(cl.mapData, cl.dataType, cl.q.nextYear) = "ok"

\* the render effect (234-258)
RenderEffect(S0, cl, rnd) ==
    IF cl.isLoading \/ ~S0.canvas.mounted THEN S0
    ELSE LET S1 == adjustCanvasSize(S0, cl)
             S2 == [S1 EXCEPT !.pass = [@ EXCEPT
                        !.shown = S0.canvas.base,
                        !.preempted = S0.rafQueue # {},
                        !.live = {cb.id : cb \in S0.rafQueue},
                        !.yearChanged = S0.pass.rYear # NullRef /\ S0.pass.rYear # cl.year,
                        !.kindChanged = S0.pass.rDataType # "null"
                                            /\ S0.pass.rDataType # cl.dataType,
                        !.owed = IF SameProps(S0, cl) THEN @ ELSE TransitionDue(S0, cl)]]
             S3 == IF RefsSayChanged(S2, cl)
                   THEN LET S2c == IF cl.transitionAnimationId # NullRef
                                   THEN [S2 EXCEPT !.rafQueue =
                                            cancelAnimationFrame(@, cl.transitionAnimationId)]
                                   ELSE S2
                        IN  IF DataTypeChanged(S2c, cl)
                            THEN renderAllLayers(S2c, cl, rnd)
                            ELSE animateYearTransition(S2c, cl, rnd)
                   ELSE renderAllLayers(S2, cl, rnd)
         IN  [S3 EXCEPT !.previousYearRef = cl.year,
                        !.previousDataTypeRef = cl.dataType,
                        !.pass = [@ EXCEPT !.rYear = cl.year, !.rDataType = cl.dataType]]

----------------------------------------------------------------------------
(* MapVisualization.tsx: the effects that load frames *)

\* the dataType effect (96-107)
DataTypeEffect(S, cl) ==
    [S EXCEPT !.previousDataTypeRef = cl.dataType,
              !.activeLayers = (@ \ BaseKinds) \cup {cl.dataType},
              !.dirty = @ \cup {"activeLayers"}]

RECURSIVE SelectKeys(_, _)
SelectKeys(keys, md) ==
    IF keys = <<>> THEN <<>>
    ELSE IF md[Head(keys)] = "none" THEN <<Head(keys)>> \o SelectKeys(Tail(keys), md)
    ELSE SelectKeys(Tail(keys), md)

\* preloadMainDataLayers: the keys its loop loads, in order; the test
\* !mapData[dataType]?.[yearToLoad] reads the mapData of the render that ran
\* the effect
PreloadTodo(cl) ==
    SelectKeys([i \in DOMAIN getAvailableYears(cl.dataType) |->
                   <<cl.dataType, getAvailableYears(cl.dataType)[i]>>], cl.mapData)

\* the guard of the preload effect (140)
PreloadNeeded(cl) == StoredCount(cl.mapData, cl.dataType) = 0

\* an async function reaches its first await: loadTIFF is invoked for the head
\* of its list
StartProc(S, type, todo) ==
    IF todo = <<>> THEN S
    ELSE [S EXCEPT !.procs = Append(@, [type |-> type, todo |-> todo]),
                   !.calls = [@ EXCEPT ![Head(todo)] = @ + 1],
                   !.isLoading = TRUE]

\* the preload effect (109-151), without its cleanup
PreloadEffect(S, cl) ==
    LET S1 == [S EXCEPT !.cleanupId = cl.transitionAnimationId,
                        !.request = @ \cup {k \in Keys : k[1] = cl.dataType}]
    IN  IF PreloadNeeded(cl)
        THEN StartProc([S1 EXCEPT !.isLoading = TRUE], "preload", PreloadTodo(cl))
        ELSE [S1 EXCEPT !.isLoading = FALSE]

\* the cleanup of the preload effect (146-150): it cancels the id its render saw
PreloadCleanup(S) ==
    IF S.cleanupId # NullRef
    THEN [S EXCEPT !.rafQueue = cancelAnimationFrame(@, S.cleanupId)]
    ELSE S

\* loadVectorLayers: the layers its loop loads, in order; activeLayers and
\* mapData are those of the render that ran the effect
VectorTodo(cl) ==
    SelectKeys(SelectSeq([i \in DOMAIN VectorOrder |-> <<VectorOrder[i], 0>>],
                         LAMBDA k : k[1] \in cl.activeLayers), cl.mapData)

\* the vector effect (153-184)
VectorEffect(S, cl) ==
    StartProc([S EXCEPT !.request = @ \cup {<<v, 0>> : v \in cl.activeLayers \cap VectorKinds}],
              "vector", VectorTodo(cl))

----------------------------------------------------------------------------
(* A render of the component and the effects it runs *)

Closure ==
    [year |-> year, dataType |-> dataType, activeLayers |-> activeLayers,
     mapData |-> mapData, isLoading |-> isLoading,
     transitionAnimationId |-> transitionAnimationId,
     q |-> TemporalQuery(year, dataType)]

\* the canvas element is rendered only while isLoading is false (549-566): a
\* render with isLoading true removes it, the next one without creates a new,
\* blank one
MountCanvas ==
    IF isLoading THEN NoCanvas
    ELSE IF canvas.mounted THEN canvas
    ELSE BlankCanvas

\* callbacks scheduled before the canvas was removed keep drawing on the
\* removed element
Detach(queue) ==
    IF isLoading THEN {[cb EXCEPT !.attached = FALSE] : cb \in queue} ELSE queue

Working ==
    [activeLayers |-> activeLayers, isLoading |-> isLoading,
     transitionAnimationId |-> transitionAnimationId, currentStats |-> currentStats,
     previousYearRef |-> previousYearRef, previousDataTypeRef |-> previousDataTypeRef,
     dirty |-> {}, cleanupId |-> cleanupId, rafQueue |-> Detach(rafQueue),
     nextRafId |-> nextRafId, procs |-> procs, calls |-> calls,
     canvas |-> MountCanvas, pass |-> pass, request |-> {}]

DataTypeDepChanged == ~rendered.mounted \/ rendered.dataType # dataType
ActiveLayersDepChanged == ~rendered.mounted \/ "activeLayers" \in dirty
RenderDepsChanged ==
    \/ ~rendered.mounted
    \/ dirty # {}
    \/ rendered.year # year
    \/ rendered.dataType # dataType
    \/ rendered.isLoading # isLoading
    \/ rendered.transitionAnimationId # transitionAnimationId

\* the effects in the order the component declares them; the cleanup of an
\* effect that runs again runs before any effect body
RunEffects(rnd) ==
    LET cl == Closure
        S0 == Working
        S1 == IF DataTypeDepChanged /\ rendered.mounted THEN PreloadCleanup(S0) ELSE S0
        S2 == IF DataTypeDepChanged THEN DataTypeEffect(S1, cl) ELSE S1
        S3 == IF DataTypeDepChanged THEN PreloadEffect(S2, cl) ELSE S2
        S4 == IF ActiveLayersDepChanged THEN VectorEffect(S3, cl) ELSE S3
    IN  RenderEffect(S4, cl, rnd)

Install(S) ==
    /\ activeLayers' = S.activeLayers
    /\ isLoading' = S.isLoading
    /\ transitionAnimationId' = S.transitionAnimationId
    /\ currentStats' = S.currentStats
    /\ previousYearRef' = S.previousYearRef
    /\ previousDataTypeRef' = S.previousDataTypeRef
    /\ dirty' = S.dirty
    /\ cleanupId' = S.cleanupId
    /\ rafQueue' = S.rafQueue
    /\ nextRafId' = S.nextRafId
    /\ procs' = S.procs
    /\ calls' = S.calls
    /\ canvas' = S.canvas
    /\ pass' = S.pass
    /\ request' = S.request

Commit ==
    /\ pure.fn = "component"
    /\ RenderDepsChanged
    /\ \E rnd \in RandomDraws : Install(RunEffects(rnd))
    /\ rendered' = [mounted |-> TRUE, year |-> year, dataType |-> dataType,
                    isLoading |-> isLoading,
                    transitionAnimationId |-> transitionAnimationId]
    /\ UNCHANGED <<year, dataType, mapData, fails, toasts, events, env, pure>>

----------------------------------------------------------------------------
(* The other steps: loads resolving, animation frames, the parent and the user *)

MaxEvents == 3
MaxProcs == 2
FrameMs == 250
YearInputs == {2009, 2010, 2012, 2024}
ToggleIds == {"landCover", "precipitation"} \cup VectorKinds

\* React commits a scheduled render before the next animation frame and
\* before the next network response; only a prop change or a click can fall
\* between a state update and the render it schedules, and is then batched
\* into that render
RenderPending == rendered.mounted /\ RenderDepsChanged

RemoveAt(seq, i) == SubSeq(seq, 1, i - 1) \o SubSeq(seq, i + 1, Len(seq))

\* loadTIFF resolves for the async function procs[i]: the function stores the
\* frame and goes on to its next await, or ends (118-137, 161-178)
LoaderResolve(i, outcome) ==
    /\ pure.fn = "component"
    /\ i \in DOMAIN procs
    /\ ~RenderPending
    /\ outcome = "empty" => Head(procs[i].todo) \in env.failable
    /\ LET p == procs[i]
           key == Head(p.todo)
           rest == Tail(p.todo)
       IN  /\ mapData' = [mapData EXCEPT ![key] = outcome]
           /\ fails' = IF outcome = "empty" THEN [fails EXCEPT ![key] = @ + 1] ELSE fails
           /\ IF rest # <<>>
              THEN /\ procs' = [procs EXCEPT ![i].todo = rest]
                   /\ calls' = [calls EXCEPT ![Head(rest)] = @ + 1]
                   /\ isLoading' = IF p.type = "vector" THEN TRUE ELSE isLoading
              ELSE /\ procs' = RemoveAt(procs, i)
                   /\ calls' = calls
                   /\ isLoading' = FALSE
    /\ dirty' = dirty \cup {"mapData"}
    /\ request' = {}
    /\ UNCHANGED <<year, dataType, activeLayers, transitionAnimationId, currentStats,
                   previousYearRef, previousDataTypeRef, rendered, cleanupId, rafQueue,
                   nextRafId, toasts, canvas, pass, events, env, pure>>

\* animateTransition (384-423), the callback cb run by an animation frame
\* FrameMs after the previous one
AnimationElapsed(cb) ==
    IF cb.elapsed + FrameMs >= AnimationDuration THEN AnimationDuration
    ELSE cb.elapsed + FrameMs

EndAt(cb, i) == IF i <= Len(cb.end) THEN cb.end[i] ELSE UndefinedCell

TransitionData(cb, animationProgress, rnd) ==
    [i \in 1..Len(cb.start) |->
        IF animationProgress.num >= animationProgress.den THEN EndAt(cb, i)
        ELSE IF RandomBelow(animationProgress, rnd[i]) THEN EndAt(cb, i)
        ELSE cb.start[i]]

TickPublishes(cb) == cb.dataType \in {"landCover", "precipitation"}

Tick(cb, rnd) ==
    /\ pure.fn = "component"
    /\ cb \in rafQueue
    /\ ~RenderPending
    /\ LET elapsed == AnimationElapsed(cb)
           animationProgress == Frac(elapsed, AnimationDuration)
           transitionData == TransitionData(cb, animationProgress, rnd)
           finished == elapsed >= AnimationDuration
           drew == cb.attached /\ Draws(transitionData, cb.width, cb.height)
       IN  /\ canvas' = IF cb.attached
                        THEN renderTIFFToCanvas(canvas, transitionData, cb.width, cb.height,
                                                cb.dataType)
                        ELSE canvas
           /\ IF ~finished
              THEN /\ rafQueue' = (rafQueue \ {cb})
                                    \cup {[cb EXCEPT !.id = nextRafId, !.elapsed = elapsed]}
                   /\ transitionAnimationId' = nextRafId
                   /\ nextRafId' = nextRafId + 1
                   /\ currentStats' = currentStats
              ELSE /\ rafQueue' = rafQueue \ {cb}
                   /\ transitionAnimationId' = NullRef
                   /\ nextRafId' = nextRafId
                   /\ currentStats' = IF TickPublishes(cb) THEN StatsOf(cb.dataType, cb.end)
                                      ELSE currentStats
           /\ pass' = [pass EXCEPT !.type = "tick", !.drew = drew,
                                   !.drawn = IF drew THEN transitionData ELSE <<>>,
                                   !.stats = finished /\ TickPublishes(cb),
                                   !.statsCells = IF finished /\ TickPublishes(cb)
                                                  THEN cb.end ELSE <<>>,
                                   !.from = cb.start, !.to = cb.end,
                                   !.shown = canvas.base,
                                   !.preempted = FALSE,
                                   !.live = {c.id : c \in rafQueue \ {cb}},
                                   !.yearChanged = FALSE, !.kindChanged = FALSE,
                                   !.owed = @ /\ ~(finished /\ drew /\ transitionData = cb.end
                                                     /\ rafQueue = {cb})]
    /\ request' = {}
    /\ UNCHANGED <<year, dataType, activeLayers, mapData, isLoading, previousYearRef,
                   previousDataTypeRef, rendered, dirty, cleanupId, procs, calls, fails,
                   toasts, events, env, pure>>

\* the parent renders the component with other props
SetProps(y, d) ==
    /\ pure.fn = "component"
    /\ rendered.mounted
    /\ events < MaxEvents
    /\ Len(procs) < MaxProcs
    /\ y = year \/ y \in env.years
    /\ d = dataType \/ d \in env.kinds
    /\ <<y, d>> # <<year, dataType>>
    /\ year' = y
    /\ dataType' = d
    /\ events' = events + 1
    /\ request' = {}
    /\ UNCHANGED <<activeLayers, mapData, isLoading, transitionAnimationId, currentStats,
                   previousYearRef, previousDataTypeRef, rendered, dirty, cleanupId, rafQueue,
                   nextRafId, procs, calls, fails, toasts, canvas, pass, env, pure>>

\* handleLayerToggle (441-454)
handleLayerToggle(active, layerId) ==
    IF layerId = "landCover" \/ layerId = "precipitation"
    THEN (active \ {"landCover", "precipitation"}) \cup {layerId}
    ELSE IF layerId \in active THEN active \ {layerId} ELSE active \cup {layerId}

ToggleLayer(layerId) ==
    /\ pure.fn = "component"
    /\ rendered.mounted
    /\ events < MaxEvents
    /\ Len(procs) < MaxProcs
    /\ layerId \in env.toggles
    /\ activeLayers' = handleLayerToggle(activeLayers, layerId)
    /\ dirty' = dirty \cup {"activeLayers"}
    /\ events' = events + 1
    /\ request' = {}
    /\ UNCHANGED <<year, dataType, mapData, isLoading, transitionAnimationId, currentStats,
                   previousYearRef, previousDataTypeRef, rendered, cleanupId, rafQueue,
                   nextRafId, procs, calls, fails, toasts, canvas, pass, env, pure>>

\* the component as constructed (38-72), before its first render is committed
ComponentInit(y, d, e) ==
    /\ env = e
    /\ year = y
    /\ dataType = d
    /\ activeLayers = {"landCover"}
    /\ mapData = [k \in Keys |-> "none"]
    /\ isLoading = TRUE
    /\ transitionAnimationId = NullRef
    /\ currentStats = NoStats
    /\ previousYearRef = NullRef
    /\ previousDataTypeRef = "null"
    /\ rendered = [mounted |-> FALSE, year |-> y, dataType |-> d, isLoading |-> TRUE,
                   transitionAnimationId |-> NullRef]
    /\ dirty = {}
    /\ cleanupId = NullRef
    /\ rafQueue = {}
    /\ nextRafId = 1
    /\ procs = <<>>
    /\ calls = [k \in Keys |-> 0]
    /\ fails = [k \in Keys |-> 0]
    /\ toasts = {}
    /\ canvas = NoCanvas
    /\ pass = NoPass
    /\ request = {}
    /\ events = 0

componentVars ==
    <<year, dataType, activeLayers, mapData, isLoading, transitionAnimationId, currentStats,
      previousYearRef, previousDataTypeRef, rendered, dirty, cleanupId, rafQueue, nextRafId,
      procs, calls, fails, toasts, canvas, pass, request, events, env>>

vars == <<componentVars, pure>>

\* the families of inputs the component is driven with: the props it is
\* constructed with, the props the parent may change it to, the layers the user
\* may click, and the files whose load may fail
Scenario(start, kinds, years, toggles, failable) ==
    [start |-> start, kinds |-> kinds, years |-> years, toggles |-> toggles,
     failable |-> failable]

SwitchKinds ==
    Scenario({<<2012, "landCover">>}, {"landCover", "precipitation"}, {2012}, {},
             {<<"landCover", 2010>>})

ToggleOverlays ==
    Scenario({<<2012, "landCover">>}, {}, {},
             {"regionBoundaries", "roadNetwork"},
             {<<"regionBoundaries", 0>>, <<"landCover", 2012>>})

ChangeYears ==
    Scenario({<<2010, "landCover">>, <<2012, "precipitation">>}, {}, YearInputs, {},
             {<<"landCover", 2010>>})

MixKindsAndYears ==
    Scenario({<<2012, "population">>, <<2010, "landCover">>}, {"landCover", "population"},
             {2010, 2012}, {}, {})

ToggleBase ==
    Scenario({<<2012, "landCover">>}, {"population"}, {}, {"landCover", "precipitation"},
             {<<"landCover", 2015>>})

MountVegetation ==
    Scenario({<<2010, "vegetation">>}, {}, {}, {"regionBoundaries"}, {})

Scenarios ==
    {SwitchKinds, ToggleOverlays, ChangeYears, MixKindsAndYears, ToggleBase, MountVegetation}

Init ==
    /\ pure = [fn |-> "component"]
    /\ \E e \in Scenarios : \E st \in e.start : ComponentInit(st[1], st[2], e)

Next ==
    \/ Commit
    \/ \E i \in 1..Len(procs), outcome \in LoadOutcomes : LoaderResolve(i, outcome)
    \/ \E cb \in rafQueue, rnd \in RandomDraws : Tick(cb, rnd)
    \/ \E y \in YearInputs, d \in BaseKinds : SetProps(y, d)
    \/ \E layerId \in ToggleIds : ToggleLayer(layerId)

Spec == Init /\ [][Next]_vars

----------------------------------------------------------------------------
(* The pure functions, applied to inputs drawn from bounded sets *)

YearMargin == 4
QueryYears == (FirstStandardYear - YearMargin)..(FirstStandardYear + StandardYearCount - 1 + YearMargin)

NoResult == [prevYear |-> Fin(0), nextYear |-> Fin(0), progress |-> NaN]

InitQuery ==
    /\ pure \in [fn : {"query"}, year : QueryYears, dataType : BaseKinds,
                 done : {FALSE}, out : {NoResult}]
    /\ ComponentInit(2023, "landCover", SwitchKinds)

ChangeQueryInput ==
    /\ pure.fn = "query"
    /\ \E y \in QueryYears, d \in BaseKinds :
          pure' = [fn |-> "query", year |-> y, dataType |-> d, done |-> FALSE,
                   out |-> NoResult]
    /\ UNCHANGED componentVars

ApplyQuery ==
    /\ pure.fn = "query"
    /\ ~pure.done
    /\ pure' = [pure EXCEPT !.done = TRUE,
                            !.out = TemporalQuery(pure.year, pure.dataType)]
    /\ UNCHANGED componentVars

NextQuery == ChangeQueryInput \/ ApplyQuery

SpecQuery == InitQuery /\ [][NextQuery]_vars

\* the available years of a kind and the population year of a requested year
InitYears ==
    /\ pure \in [fn : {"years"}, year : QueryYears, dataType : BaseKinds,
                 done : {FALSE}, out : {<<>>}]
    /\ ComponentInit(2023, "landCover", SwitchKinds)

ApplyYears ==
    /\ pure.fn = "years"
    /\ ~pure.done
    /\ pure' = [pure EXCEPT !.done = TRUE,
                            !.out = [available |-> getAvailableYears(pure.dataType),
                                     closest |-> getClosestPopulationYear(pure.year)]]
    /\ UNCHANGED componentVars

NextYears == ApplyYears

SpecYears == InitYears /\ [][NextYears]_vars

\* interpolateData applied to arrays of up to CellCount cells, to a progress
\* among the multiples of 1/ProgressSteps in [0, 1] and NaN, and to every
\* outcome of its calls of Math.random()
ProgressSteps == 2
CellValues == {7, 9}
CellArrays == UNION {[1..n -> CellValues] : n \in 0..CellCount}
Progresses == {Frac(n, ProgressSteps) : n \in 0..ProgressSteps} \cup {NaN}

InitInterpolate ==
    /\ pure \in [fn : {"interpolate"}, startData : CellArrays, endData : CellArrays,
                 progress : Progresses, rnd : RandomDraws, done : {FALSE}, out : {<<>>}]
    /\ ComponentInit(2023, "landCover", SwitchKinds)

ApplyInterpolate ==
    /\ pure.fn = "interpolate"
    /\ ~pure.done
    /\ pure' = [pure EXCEPT !.done = TRUE,
                            !.out = interpolateData(pure.startData, pure.endData,
                                                    pure.progress, pure.rnd)]
    /\ UNCHANGED componentVars

\* the same call again, with other outcomes of Math.random()
CallInterpolateAgain ==
    /\ pure.fn = "interpolate"
    /\ pure.done
    /\ \E rnd \in RandomDraws : pure' = [pure EXCEPT !.done = FALSE, !.rnd = rnd, !.out = <<>>]
    /\ UNCHANGED componentVars

NextInterpolate == ApplyInterpolate \/ CallInterpolateAgain

SpecInterpolate == InitInterpolate /\ [][NextInterpolate]_vars

\* the continuous colour rules, applied to two values under the same range
MaxValue == 8
ColorValues ==
    {Frac(n, 2) : n \in (-2)..(2 * MaxValue + 2)} \cup {Frac(VegetationNoData, 1), NaN}
ColorRanges == {r \in [min : 0..1, max : 0..MaxValue] : r.min <= r.max}

InitColor ==
    /\ pure \in [fn : {"color"}, dataType : BaseKinds, value : ColorValues,
                 other : ColorValues, range : ColorRanges, done : {FALSE},
                 out : {<<>>}]
    /\ ComponentInit(2023, "landCover", SwitchKinds)

ApplyColor ==
    /\ pure.fn = "color"
    /\ ~pure.done
    /\ pure' = [pure EXCEPT
                  !.done = TRUE,
                  !.out = <<CellColor(pure.dataType, pure.value, pure.range.min,
                                      pure.range.max),
                            CellColor(pure.dataType, pure.other, pure.range.min,
                                      pure.range.max)>>]
    /\ UNCHANGED componentVars

NextColor == ApplyColor

SpecColor == InitColor /\ [][NextColor]_vars

\* a land cover frame between two stored years: the cells renderLayer hands
\* to renderTIFFToCanvas and the colour of each
FrameValues == {Frac(7, 1), Frac(16, 1), Frac(3, 1)}
FrameArrays == UNION {[1..n -> FrameValues] : n \in 0..CellCount}

InitFrame ==
    /\ pure \in [fn : {"frame"}, startData : FrameArrays, endData : FrameArrays,
                 progress : Progresses, rnd : RandomDraws, done : {FALSE},
                 cells : {<<>>}, out : {<<>>}]
    /\ ComponentInit(2023, "landCover", SwitchKinds)

ApplyFrame ==
    /\ pure.fn = "frame"
    /\ ~pure.done
    /\ LET renderData == interpolateData(pure.startData, pure.endData, pure.progress,
                                         pure.rnd)
       IN  pure' = [pure EXCEPT
                      !.done = TRUE,
                      !.cells = renderData,
                      !.out = [i \in DOMAIN renderData |->
                                  CellColor("landCover", renderData[i], 0, 500)]]
    /\ UNCHANGED componentVars

NextFrame == ApplyFrame

SpecFrame == InitFrame /\ [][NextFrame]_vars

\* the statistics of a cell array, and the range loadTIFF takes from it
StatCells == 4
StatValues(kind) ==
    IF kind = "landCover" THEN {Frac(0, 1), Frac(7, 1), Frac(8, 1), Frac(3, 1), NaN}
    ELSE IF kind = "precipitation"
        THEN {Frac(-1, 1), Frac(0, 1), Frac(1, 20), Frac(1, 10), Frac(2, 1), NaN}
    ELSE IF kind = "vegetation"
        THEN {Frac(-1, 1), Frac(0, 1), Frac(5, 1), Frac(VegetationCeiling, 1),
              Frac(VegetationNoData, 1)}
    ELSE {Frac(-1, 1), Frac(0, 1), Frac(3, 1), Frac(10, 1), NaN}
StatArrays(kind) == UNION {[1..n -> StatValues(kind)] : n \in 0..StatCells}

InitStats ==
    /\ \E kind \in BaseKinds : \E data \in StatArrays(kind) :
          pure = [fn |-> "stats", dataType |-> kind, data |-> data, done |-> FALSE,
                  out |-> <<>>, range |-> <<>>]
    /\ ComponentInit(2023, "landCover", SwitchKinds)

ApplyStats ==
    /\ pure.fn = "stats"
    /\ ~pure.done
    /\ pure' = [pure EXCEPT
                  !.done = TRUE,
                  !.out = CASE pure.dataType = "landCover" ->
                                   calculateLandCoverStats(pure.data)
                            [] pure.dataType = "precipitation" ->
                                   calculatePrecipitationStats(pure.data)
                            [] pure.dataType = "vegetation" ->
                                   calculateVegetationStats(pure.data)
                            [] OTHER -> calculatePopulationStats(pure.data),
                  !.range = IF pure.dataType = "landCover" THEN <<>>
                            ELSE LoadRange(pure.dataType, pure.data)]
    /\ UNCHANGED componentVars

NextStats == ApplyStats

SpecStats == InitStats /\ [][NextStats]_vars

----------------------------------------------------------------------------
(* The frame store *)

\* C1: for every key the loader is invoked at most once, unless an earlier
\* invocation for that key failed: requests for a key whose load is still
\* unresolved coalesce, and a key that holds a frame is not loaded again
LoaderInvokedOncePerKey ==
    \A k \in Keys : calls[k] <= fails[k] + 1

BeingLoaded(k) == \E i \in DOMAIN procs : k \in SeqRange(procs[i].todo)

\* C2: a key whose load failed stays eligible for retry: when a render asks
\* the frame store for a key that holds the empty frame of a failed load, the
\* loader is invoked for it again
FailedKeyIsLoadedAgain ==
    \A k \in request : mapData[k] = "empty" => BeingLoaded(k)

\* C3: every load failure is reported to the user-facing notice channel
\* (toast), under the key that failed
LoadFailureIsReported ==
    \A k \in Keys : fails[k] > 0 => k \in toasts

----------------------------------------------------------------------------
(* The temporal query *)

AvailableSet(kind) == SeqRange(getAvailableYears(kind))

InsideRange(yr, kind) ==
    \E a, b \in AvailableSet(kind) : a <= yr /\ yr <= b

LargestAtMost(yr, kind) ==
    CHOOSE b \in AvailableSet(kind) :
        b <= yr /\ \A y \in AvailableSet(kind) : y <= yr => y <= b

SmallestAtLeast(yr, kind) ==
    CHOOSE a \in AvailableSet(kind) :
        a >= yr /\ \A y \in AvailableSet(kind) : y >= yr => a <= y

NearestEndpoint(yr, kind) ==
    CHOOSE e \in AvailableSet(kind) :
        \/ \A y \in AvailableSet(kind) : yr < y /\ e <= y
        \/ \A y \in AvailableSet(kind) : yr > y /\ e >= y

SameFraction(p, r) ==
    p.den > 0 /\ r.den > 0 /\ p.num * r.den = r.num * p.den

InUnitInterval(p) == p.den > 0 /\ 0 <= p.num /\ p.num <= p.den

QueryApplied == pure.fn = "query" /\ pure.done

\* C4: for a requested year inside the range of the available years the query
\* gives before = the largest available year <= requested, after = the
\* smallest available year >= requested, before <= requested <= after, and
\* progress = 0 when before = after, else (requested - before)/(after - before),
\* which lies in [0,1]; 2013 over [2010,2015,2020] gives 2010, 2015 and 3/5
QueryInsideRange ==
    (QueryApplied /\ InsideRange(pure.year, pure.dataType)) =>
        LET before == LargestAtMost(pure.year, pure.dataType)
            after == SmallestAtLeast(pure.year, pure.dataType)
        IN  /\ pure.out.prevYear = Fin(before)
            /\ pure.out.nextYear = Fin(after)
            /\ before <= pure.year /\ pure.year <= after
            /\ SameFraction(pure.out.progress,
                            IF before = after THEN Zero
                            ELSE Frac(pure.year - before, after - before))
            /\ InUnitInterval(pure.out.progress)
            /\ (pure.year = 2013 /\ pure.dataType = "population") =>
                   /\ pure.out.prevYear = Fin(2010)
                   /\ pure.out.nextYear = Fin(2015)
                   /\ SameFraction(pure.out.progress, Frac(3, 5))

\* the query was applied to a year strictly between two available years
QueryBetweenYears ==
    /\ QueryApplied
    /\ pure.year = 2013 /\ pure.dataType = "population"
    /\ pure.out = [prevYear |-> Fin(2010), nextYear |-> Fin(2015), progress |-> Frac(3, 5)]

\* C5: for a requested year outside the range of the available years the
\* query gives before = after = the nearest endpoint and progress = 0; 2023
\* over [2010,2015,2020] gives before = after = 2020 and progress 0
QueryOutsideRangeClamps ==
    (QueryApplied /\ ~InsideRange(pure.year, pure.dataType)) =>
        /\ pure.out.prevYear = Fin(NearestEndpoint(pure.year, pure.dataType))
        /\ pure.out.nextYear = Fin(NearestEndpoint(pure.year, pure.dataType))
        /\ SameFraction(pure.out.progress, Zero)

----------------------------------------------------------------------------
(* The render pass and the transition animator *)

LiveIds == {cb.id : cb \in rafQueue}

\* C6: when a new animation or a new full render starts, every tick that was
\* scheduled before it has been cancelled, and at most one tick sequence is
\* live at any time
TicksCancelledBeforeNewWork ==
    /\ Cardinality(rafQueue) <= 1
    /\ pass.type \in {"full", "animStart"} => pass.live \cap LiveIds = {}

\* C7: a transition is started only when the year changed, the kind did not,
\* and a frame was rendered before; a pass in which the kind changed does a
\* full redraw and schedules no tick; the first render never animates
AnimationOnlyOnYearChange ==
    /\ pass.type = "animStart" => pass.yearChanged /\ ~pass.kindChanged
    /\ pass.kindChanged => pass.type = "full"

\* C8: a year requested while a transition is animating cancels the tick
\* sequence in flight and restarts the transition from the cell array last
\* drawn to the buffer
PreemptionRestartsFromLastDrawn ==
    (/\ pass.type = "animStart"
     /\ pass.preempted
     /\ pass.yearChanged /\ ~pass.kindChanged
     /\ pass.shown # <<>>) =>
        /\ pass.from = pass.shown
        /\ pass.live \cap LiveIds = {}

\* nothing is left to run: no render is scheduled, no animation frame is
\* scheduled and no load is outstanding
Quiescent ==
    /\ rendered.mounted /\ ~RenderPending
    /\ rafQueue = {}
    /\ procs = <<>>

\* C9: after a year change within the same kind whose bracketing frames are
\* loaded, unless a later request replaces it, the animator reaches
\* animationProgress >= 1, draws toCells exactly and is idle with no tick left
\* scheduled.  Every step of the component uses up a scheduled render, frame
\* or load, so "eventually" is "before the component comes to rest": it never
\* rests with such a transition still undrawn
AnimationCompletes ==
    Quiescent => ~pass.owed

\* C11: at most one base kind among landCover, precipitation, vegetation and
\* population is enabled in activeLayers, after any dataset selections and
\* layer toggles
OneBaseKindEnabled ==
    Cardinality(activeLayers \cap BaseKinds) <= 1

FullPassWithBase == pass.type = "full" /\ pass.base # "none"

\* C12: when before # after and the after frame is unavailable (not stored,
\* or stored with no cells after a failed load) the pass colour-maps the cells
\* of the before frame; it interpolates only when before # after and both
\* frames are available, and a frame with no cells is never composited
AfterUnavailableDrawsBefore ==
    /\ (FullPassWithBase /\ pass.before = "ok" /\ pass.bracketed /\ pass.after # "ok") =>
           (pass.drew /\ pass.drawn = pass.beforeCells)
    /\ (FullPassWithBase /\ pass.interpolated) =>
           (pass.bracketed /\ pass.before = "ok" /\ pass.after = "ok")
    /\ pass.drew => pass.drawn # <<>>

FixedOverlayOrder ==
    <<"regionBoundaries", "districtBoundaries", "roadNetwork", "riverNetwork">>

\* the enabled overlays whose frame is loaded, in the fixed order
ExpectedOverlays ==
    SelectSeq(FixedOverlayOrder, LAMBDA v : v \in pass.active \cap pass.loaded)

PreloadingFinished == rendered.mounted /\ ~RenderPending /\ procs = <<>>

\* the base kinds that are active: the kind selected by the parent and the
\* base kinds enabled in activeLayers
ActiveKinds == {dataType} \cup (activeLayers \cap BaseKinds)

AllYearsStored(kind) ==
    \A y \in AvailableSet(kind) : mapData[<<kind, y>>] # "none"

\* C14: when a kind has become active, every year of its available years is
\* requested from the loader and stored, so that once preloading has finished
\* the temporal query finds both bracketing frames in the store
ActiveKindIsPreloaded ==
    PreloadingFinished =>
        /\ \A kind \in ActiveKinds : AllYearsStored(kind)
        /\ LET q == TemporalQuery(year, dataType)
           IN  /\ Stored(mapData, dataType, q.prevYear) # "none"
               /\ Stored(mapData, dataType, q.nextYear) # "none"

\* C15: in every full render pass the enabled overlays are drawn after the
\* base layer, in the order region boundaries, district boundaries, road
\* network, river network, whatever the order they were toggled on in; each
\* overlay is stored under year key 0
OverlaysInFixedOrder ==
    /\ pass.type = "full" => pass.overlays = ExpectedOverlays
    /\ \A k \in Keys : (k[1] \in VectorKinds /\ calls[k] > 0) => k[2] = 0

\* a full pass drew the base layer and then two overlays over it
TwoOverlaysOverBase ==
    /\ pass.type = "full" /\ pass.drew
    /\ pass.overlays = <<"regionBoundaries", "roadNetwork">>
    /\ canvas.base = pass.drawn /\ canvas.overlays = pass.overlays

----------------------------------------------------------------------------
(* interpolateData *)

InterpolateApplied == pure.fn = "interpolate" /\ pure.done

SameLengthNonEmpty ==
    Len(pure.startData) = Len(pure.endData) /\ Len(pure.startData) > 0

\* C16: for same-length non-empty arrays and a progress in [0,1], whatever
\* the random draws, the result has the same length, every cell is the start
\* or the end value of its index, and is the shared value where the two
\* agree; interpolate(a, a, p) is a
InterpolateChoosesPerCell ==
    /\ (InterpolateApplied /\ SameLengthNonEmpty /\ InUnitInterval(pure.progress)) =>
           /\ Len(pure.out) = Len(pure.startData)
           /\ \A i \in DOMAIN pure.out :
                  /\ pure.out[i] \in {pure.startData[i], pure.endData[i]}
                  /\ pure.startData[i] = pure.endData[i] => pure.out[i] = pure.startData[i]
    /\ (InterpolateApplied /\ SameLengthNonEmpty /\ pure.startData = pure.endData) =>
           pure.out = pure.startData

\* the result took one cell from the start array and one from the end array
InterpolateMixed ==
    /\ InterpolateApplied /\ SameLengthNonEmpty /\ InUnitInterval(pure.progress)
    /\ pure.out # pure.startData /\ pure.out # pure.endData

\* C17: when the two arrays differ in length or one of them is empty, the
\* result is endData unchanged, for every progress
InterpolateDegradesToEnd ==
    (InterpolateApplied /\ ~SameLengthNonEmpty) => pure.out = pure.endData

\* arrays of different lengths, neither empty, gave endData
InterpolateLengthsDiffer ==
    /\ InterpolateApplied
    /\ Len(pure.startData) > Len(pure.endData) /\ Len(pure.endData) > 0
    /\ pure.out = pure.endData

\* C18: for same-length non-empty arrays and every outcome of the draws,
\* progress 0 gives the start array and progress 1 the end array
InterpolateEndpoints ==
    (InterpolateApplied /\ SameLengthNonEmpty) =>
        /\ SameFraction(pure.progress, Zero) => pure.out = pure.startData
        /\ SameFraction(pure.progress, Frac(1, 1)) => pure.out = pure.endData

\* progress 0 gave the start array although every draw was the lowest
InterpolateAtZero ==
    /\ InterpolateApplied /\ SameLengthNonEmpty
    /\ SameFraction(pure.progress, Zero)
    /\ \A i \in DOMAIN pure.startData : pure.startData[i] # pure.endData[i] /\ pure.rnd[i]
    /\ pure.out = pure.startData

----------------------------------------------------------------------------
(* The continuous colour rules *)

ColorApplied == pure.fn = "color" /\ pure.done

ContinuousKinds == {"precipitation", "vegetation", "population"}

ScaleOf(kind) ==
    IF kind = "precipitation" THEN precipitationColorScale
    ELSE IF kind = "vegetation" THEN vegetationProductivityScale
    ELSE populationDensityScale

\* the index of a colour in a scale, counted from 0 as the code counts
ScaleIndexOf(scale, color) == (CHOOSE i \in DOMAIN scale : scale[i] = color) - 1

OnScale(kind, color) == color \in SeqRange(ScaleOf(kind))

ValueLeq(v, w) == v.den > 0 /\ w.den > 0 /\ v.num * w.den <= w.num * v.den

\* C19: for every value and every range with min <= max (the denominator
\* being 1 when they are equal) a cell that is not mapped to the transparent
\* colour is mapped to a colour of the scale, at an index in
\* 0..scale.length-1, and the index does not decrease when the value grows
ScaleIndexInRangeAndMonotone ==
    (ColorApplied /\ pure.dataType \in ContinuousKinds) =>
        /\ \A i \in 1..2 :
              pure.out[i] # Transparent =>
                  /\ OnScale(pure.dataType, pure.out[i])
                  /\ ScaleIndexOf(ScaleOf(pure.dataType), pure.out[i])
                         \in 0..(Len(ScaleOf(pure.dataType)) - 1)
        /\ (/\ ValueLeq(pure.value, pure.other)
            /\ OnScale(pure.dataType, pure.out[1])
            /\ OnScale(pure.dataType, pure.out[2])) =>
               ScaleIndexOf(ScaleOf(pure.dataType), pure.out[1])
                   <= ScaleIndexOf(ScaleOf(pure.dataType), pure.out[2])

\* C20: the vegetation sentinel 65533 and every population value below 0 are
\* mapped to the fully transparent colour, and the population value 0 is
\* mapped to the colour of the scale that its position in the range gives
PopulationZeroTakesPartInScale ==
    ColorApplied =>
        /\ (pure.dataType = "vegetation" /\ IsValue(pure.value, VegetationNoData)) =>
               pure.out[1] = Transparent
        /\ (pure.dataType = "population" /\ ValueBelow(pure.value, 0)) =>
               pure.out[1] = Transparent
        /\ (pure.dataType = "population" /\ IsValue(pure.value, 0)) =>
               /\ pure.out[1] # Transparent
               /\ pure.out[1] = populationDensityScale[1]

PopulationZeroColoured ==
    /\ ColorApplied
    /\ pure.dataType = "population"
    /\ IsValue(pure.value, 0)
    /\ ValueBelow(pure.other, 0)
    /\ pure.out = <<populationDensityScale[1], Transparent>>

----------------------------------------------------------------------------
(* The available years *)

YearsApplied == pure.fn = "years" /\ pure.done

PopulationYears == {2010, 2015, 2020}

Distance(a, b) == IF a < b THEN b - a ELSE a - b

\* C25: the available years are exactly 2010..2023, 14 of them in
\* increasing order, for land cover, precipitation and vegetation and
\* exactly 2010, 2015, 2020 for population; the population year of an integer
\* year is the member of 2010, 2015, 2020 nearest to it, the earlier one
\* when two are equally near, and the year itself when it is a member
AvailableYearsAndClosestPopulationYear ==
    YearsApplied =>
        /\ pure.dataType # "population" =>
              /\ Len(pure.out.available) = 14
              /\ \A i \in 1..14 : pure.out.available[i] = 2009 + i
        /\ pure.dataType = "population" => pure.out.available = <<2010, 2015, 2020>>
        /\ pure.out.closest \in PopulationYears
        /\ \A m \in PopulationYears :
              \/ Distance(pure.out.closest, pure.year) < Distance(m, pure.year)
              \/ /\ Distance(pure.out.closest, pure.year) = Distance(m, pure.year)
                 /\ pure.out.closest <= m
        /\ pure.year \in PopulationYears => pure.out.closest = pure.year

ClosestPopulationYearOfMiddleYear ==
    /\ YearsApplied
    /\ pure.dataType = "population"
    /\ pure.year = 2018
    /\ pure.out.closest = 2020

----------------------------------------------------------------------------
(* The land cover colours *)

FrameApplied == pure.fn = "frame" /\ pure.done

LandCoverTable ==
    (0 :> "#4d4d4d") @@ (7 :> "#1a9850") @@ (8 :> "#91cf60") @@ (9 :> "#d9ef8b")
      @@ (10 :> "#fee08b") @@ (11 :> "#66c2a5") @@ (12 :> "#fc8d59") @@ (13 :> "#d73027")
      @@ (14 :> "#fdae61") @@ (15 :> "#f7f7f7") @@ (16 :> "#bababa")

\* the table entry of a value that is a key, the entry of key 0 otherwise
CategoryColor(v) ==
    IF \E k \in DOMAIN LandCoverTable : IsValue(v, k)
    THEN LandCoverTable[CHOOSE k \in DOMAIN LandCoverTable : IsValue(v, k)]
    ELSE LandCoverTable[0]

\* C21: the colour of a land cover cell is the table entry of its value, and
\* the entry of key 0 when the value is no key; every pixel of a land cover
\* frame, also of one interpolated between two years, has a colour of the
\* table, the colour of the category that cell has in one of the two years
LandCoverPixelsFromSourceYears ==
    FrameApplied =>
        \A i \in DOMAIN pure.out :
            /\ pure.out[i] = CategoryColor(pure.cells[i])
            /\ pure.out[i] \in {LandCoverTable[k] : k \in DOMAIN LandCoverTable}
            /\ \/ i \in DOMAIN pure.startData /\ pure.out[i] = CategoryColor(pure.startData[i])
               \/ i \in DOMAIN pure.endData /\ pure.out[i] = CategoryColor(pure.endData[i])

InterpolatedFrameColoured ==
    /\ FrameApplied
    /\ pure.startData = <<Frac(7, 1), Frac(3, 1)>>
    /\ pure.endData = <<Frac(16, 1), Frac(3, 1)>>
    /\ pure.progress = Frac(1, 2)
    /\ pure.out = <<"#bababa", "#4d4d4d">>

----------------------------------------------------------------------------
(* The statistics *)

StatsApplied(kind) == pure.fn = "stats" /\ pure.done /\ pure.dataType = kind

KnownCategories == {0, 7, 8, 9, 10, 11, 12, 13, 14, 15, 16}

CellsOfValue(data, n) == {i \in DOMAIN data : IsValue(data[i], n)}

RECURSIVE SumOver(_, _)
SumOver(f, S) ==
    IF S = {} THEN 0 ELSE LET k == CHOOSE k \in S : TRUE IN f[k] + SumOver(f, S \ {k})

\* C22: the land cover histogram holds every known category, the count of a
\* category is the number of cells of that value, and cells of any other
\* value are dropped: the counts sum to the number of cells of a known
\* category
HistogramCountsKnownCategories ==
    StatsApplied("landCover") =>
        /\ DOMAIN pure.out = KnownCategories
        /\ \A k \in KnownCategories :
              pure.out[k] = Cardinality(CellsOfValue(pure.data, k))
        /\ SumOver(pure.out, KnownCategories)
               = Cardinality(UNION {CellsOfValue(pure.data, k) : k \in KnownCategories})

HistogramOfFourCells ==
    /\ StatsApplied("landCover")
    /\ pure.data = <<Frac(7, 1), Frac(7, 1), Frac(8, 1), Frac(0, 1)>>
    /\ pure.out[7] = 2 /\ pure.out[8] = 1 /\ pure.out[0] = 1
    /\ \A k \in KnownCategories \ {0, 7, 8} : pure.out[k] = 0

ValueLeqFrac(v, w) == v.den > 0 /\ v.num * w.den <= w.num * v.den

\* the cells the summaries leave out, as the datasets define them
PrecipitationExcluded(v) == ValueLeqFrac(v, Frac(1, 10))
VegetationExcluded(v) ==
    \/ ValueLeqFrac(v, Frac(0, 1))
    \/ ValueLeqFrac(Frac(3000, 1), v)
    \/ IsValue(v, 65533)

AllZero(summary) ==
    /\ summary.average = Frac(0, 1)
    /\ summary.min = Frac(0, 1)
    /\ summary.max = Frac(0, 1)
    /\ summary.total = Frac(0, 1)

\* C23: the precipitation and the vegetation summary of a cell array of which
\* no cell survives the exclusion (the empty array, or one of excluded
\* values only) is the record of zeros for average, min, max and total
EmptyValidSetGivesZeroSummary ==
    /\ (/\ StatsApplied("precipitation")
        /\ \A i \in DOMAIN pure.data : PrecipitationExcluded(pure.data[i]))
           => AllZero(pure.out)
    /\ (/\ StatsApplied("vegetation")
        /\ \A i \in DOMAIN pure.data : VegetationExcluded(pure.data[i]))
           => AllZero(pure.out)

OnlyExcludedCells ==
    /\ StatsApplied("precipitation")
    /\ pure.data = <<Frac(1, 10), Frac(0, 1), Frac(1, 20)>>
    /\ AllZero(pure.out)

NonNegativeCells(data) == SelectSeq(data, LAMBDA v : v.den > 0 /\ v.num >= 0)

\* C24: the population summary leaves out exactly the cells below 0: the
\* average density is the sum of the cells of value 0 or more divided by
\* their number, and an array with such a cell does not get the record of
\* the empty valid set
PopulationSummaryKeepsZeros ==
    (StatsApplied("population") /\ Len(NonNegativeCells(pure.data)) > 0) =>
        LET valid == NonNegativeCells(pure.data)
            sum == SeqSum(valid)
        IN  /\ SameFraction(pure.out.averageDensity, Frac(sum.num, sum.den * Len(valid)))
            /\ pure.out.populationGrowthRate # Frac(0, 1)

----------------------------------------------------------------------------
(* The render pass, continued *)

\* C10: whenever statistics are published, they were computed from exactly
\* the cell array that was colour-mapped to the buffer in the same pass
StatsFromDrawnCells ==
    pass.stats => pass.drew /\ pass.statsCells = pass.drawn

\* C26: a full pass with one base kind active, whichever of the four, and
\* that kind's frame for the resolved year loaded colour-maps the frame onto
\* the buffer and publishes statistics computed from its cells; no overlay
\* contributes to the statistics
FullPassRendersActiveBaseKind ==
    (/\ pass.type = "full"
     /\ \E k \in BaseKinds : pass.activeBase = {k} /\ k \in pass.baseLoaded) =>
        /\ pass.activeBase = {pass.base}
        /\ pass.drew
        /\ pass.stats
        /\ pass.statsCells = pass.drawn
        /\ currentStats.kind = pass.base
        /\ currentStats.cells = pass.drawn

=============================================================================
